---------------------------- MODULE Spec2Model ----------------------------
(***************************************************************************)
(* A model of the two artifacts of the repository:                         *)
(*                                                                         *)
(*   test_brat17.py  the volume loader (load_3d_volume_as_array and its    *)
(*                   two format loaders), the label remapper               *)
(*                   (convert_label) and the module-level script that      *)
(*                   loads the modalities of one case and stacks them;     *)
(*   xception39.py   the residual Block and the shapes of the tensors      *)
(*                   that flow through it.                                 *)
(*                                                                         *)
(* The four parts share no state, so each has its own specification:       *)
(* SpecRemap, SpecLoader, SpecScript and SpecBlock.  Under one of them the *)
(* variables of the other parts stay at their idle values.                 *)
(***************************************************************************)
EXTENDS Integers, Sequences, FiniteSets, TLC

VARIABLES
    \* ---- convert_label -------------------------------------------------
    heap,                  \* address -> array; <<>> where nothing is allocated
    in_volume,             \* address of the array passed as in_volume
    in0,                   \* the values of in_volume when the call was made
    label_convert_source,  \* the list passed as label_convert_source
    label_convert_target,  \* the list passed as label_convert_target
    out_volume,            \* address returned by convert_label, "None" before/unless it returns
    rraised,               \* "none" or the exception convert_label raised
    rindex,                \* the (0-based) list index an IndexError was raised at
    rpc,                   \* "init", "returned", "raised", "written"
    \* ---- the loader functions, called on one file name ------------------
    filename,              \* the file name passed to the loader
    ldisk,                 \* the files on disk: file name -> file
    lcall,                 \* "none" or the loader function that was called
    lwith_header,          \* the with_header argument of load_nifty_volume_as_array
    lret,                  \* the value returned, "None" before/unless the call returns
    lraised,               \* "none" or the exception raised
    lerrarg,               \* the file name the unsupported-format error carries
    ldecoder,              \* the decoders invoked by the call, in order
    \* ---- the module-level script ---------------------------------------
    sdisk,                 \* the files of the data set: file name -> file
    img_num,               \* line 79
    t1_img, t1ce_img, flair_img, t2_img, lbl,   \* lines 89, 95, 101, 107, 113
    img,                   \* line 117
    reads,                 \* the file names handed to the decoder, in order
    sraised,               \* "none" or the exception that ended the script
    spc,                   \* the statement the script is at
    \* ---- one Block -----------------------------------------------------
    in_filters, out_filters, reps, strides, start_with_relu, grow_first,
                           \* the arguments of Block.__init__
    block,                 \* the Block built: its rep, skip and skipbn
    inp,                   \* the tensor passed to forward
    x,                     \* forward: self.rep(inp)
    skip,                  \* forward: the skip tensor
    result,                \* forward: x after x += skip
    bpc                    \* "new", "built", "done", "failed"

remapVars == <<heap, in_volume, in0, label_convert_source, label_convert_target,
               out_volume, rraised, rindex, rpc>>

loaderVars == <<filename, ldisk, lcall, lwith_header, lret, lraised, lerrarg, ldecoder>>
scriptVars == <<sdisk, img_num, t1_img, t1ce_img, flair_img, t2_img, lbl, img, reads,
                sraised, spc>>

blockVars == <<in_filters, out_filters, reps, strides, start_with_relu, grow_first,
               block, inp, x, skip, result, bpc>>

vars == <<remapVars, loaderVars, scriptVars, blockVars>>

-----------------------------------------------------------------------------
(***************************************************************************)
(* Bounds of the model.                                                    *)
(***************************************************************************)
\* label values are 0..MaxLabel
MaxLabel == 2
\* a volume has NumVoxels voxels (convert_label is elementwise: the volume is flattened)
NumVoxels == 1
\* the source and the target list each have 0..MaxRules entries
MaxRules == 2
\* a file name has 1..MaxNameLen parts
MaxNameLen == 3
\* every axis of a stored volume has 1..MaxDim entries
MaxDim == 2
\* a Block has 1..MaxFilters input and output channels
MaxFilters == 2
\* a Block has 1..MaxReps separable convolutions
MaxReps == 3
\* a Block has stride 1..MaxStride
MaxStride == 2
\* the input of a Block is 1..MaxSize high and wide
MaxSize == 3

Labels == 0 .. MaxLabel
Voxels == 1 .. NumVoxels
Volumes == [Voxels -> Labels]
LabelLists == UNION {[1 .. n -> Labels] : n \in 0 .. MaxRules}

-----------------------------------------------------------------------------
(***************************************************************************)
(* convert_label (test_brat17.py).  Arrays live in a heap so that "the     *)
(* same array" and "an equal array" are different things.  Values are      *)
(* mathematical integers: the dtype of the volume is the caller's.         *)
(***************************************************************************)
Addrs == {"a1", "a2"}
Unallocated == <<>>
NoAddr == "None"

\* the address a newly created array gets
Alloc(h) == CHOOSE a \in Addrs : h[a] = Unallocated

\* np.zeros_like(in_volume)
zeros_like(v) == [p \in DOMAIN v |-> 0]

\* np.asarray(in_volume == source_lab), True as 1 and False as 0
temp_source_of(v, source_lab) == [p \in DOMAIN v |-> IF v[p] = source_lab THEN 1 ELSE 0]

\* elementwise a + b
VolAdd(a, b) == [p \in DOMAIN a |-> a[p] + b[p]]

\* list[i] with a 0-based index i >= 0: the entry, or IndexError
ListGet(list, i) ==
    IF i < Len(list) THEN [ok |-> TRUE, val |-> list[i + 1]]
    ELSE [ok |-> FALSE, val |-> 0]

\* A loop body that matches rule i against the value written so far, not
\* against the original volume (rules applied transitively).
LoopBodyTransitive(v, acc, source_lab, target_lab) ==
    IF source_lab # target_lab
    THEN LET cur == [p \in DOMAIN v |->
                        IF acc.mask_volume[p] > 0 THEN acc.convert_volume[p] ELSE v[p]]
             temp_source == temp_source_of(cur, source_lab)
             temp_target == [p \in DOMAIN v |-> target_lab * temp_source[p]]
         IN [mask_volume |-> VolAdd(acc.mask_volume, temp_source),
             convert_volume |-> VolAdd(acc.convert_volume, temp_target)]
    ELSE acc

\* lines 65-69: one iteration of the loop, on the accumulators
LoopBody(v, acc, source_lab, target_lab) ==
    IF source_lab # target_lab
    THEN LET temp_source == temp_source_of(v, source_lab)
             temp_target == [p \in DOMAIN v |-> target_lab * temp_source[p]]
         IN [mask_volume |-> VolAdd(acc.mask_volume, temp_source),
             convert_volume |-> VolAdd(acc.convert_volume, temp_target)]
    ELSE acc

\* A loop over the indices of the target list.
LoopRangeTarget(source, target) == Len(target)

\* line 62: range(len(label_convert_source))
LoopRange(source, target) == Len(source)

\* lines 62-69: the loop from index i on; an IndexError ends it
RECURSIVE Loop(_, _, _, _, _)
Loop(v, source, target, i, acc) ==
    IF i >= LoopRange(source, target)
    THEN [raised |-> "none", index |-> -1, acc |-> acc]
    ELSE LET s == ListGet(source, i)
             t == ListGet(target, i)
         IN IF ~s.ok \/ ~t.ok
            THEN [raised |-> "IndexError", index |-> i, acc |-> acc]
            ELSE Loop(v, source, target, i + 1, LoopBody(v, acc, s.val, t.val))

\* "in_volume * 1" with no copy made: the result is the operand itself.
TimesOneAlias(h, a) == [heap |-> h, addr |-> a]

\* line 70: in_volume * 1 is a new array with the values of in_volume
TimesOne(h, a) ==
    LET new == Alloc(h)
    IN [heap |-> [h EXCEPT ![new] = h[a]], addr |-> new]

\* line 71: out_volume[mask_volume>0] = convert_volume[mask_volume>0], written
\* into the array at address out
MaskedAssign(h, out, mask_volume, convert_volume) ==
    [h EXCEPT ![out] = [p \in DOMAIN h[out] |->
                           IF mask_volume[p] > 0 THEN convert_volume[p] ELSE h[out][p]]]

\* lines 50-72: the call convert_label(<array at a>, source, target) on heap h
convert_label(h, a, source, target) ==
    LET v == h[a]
        acc0 == [mask_volume |-> zeros_like(v), convert_volume |-> zeros_like(v)]
        l == Loop(v, source, target, 0, acc0)
    IN IF l.raised # "none"
       THEN [raised |-> l.raised, index |-> l.index, heap |-> h, ret |-> NoAddr]
       ELSE LET c == TimesOne(h, a)
            IN [raised |-> "none", index |-> -1,
                heap |-> MaskedAssign(c.heap, c.addr, l.acc.mask_volume, l.acc.convert_volume),
                ret |-> c.addr]

\* the values convert_label returns for a volume with values v (<<>> if it raises)
Converted(v, source, target) ==
    LET r == convert_label([a \in Addrs |-> IF a = "a1" THEN v ELSE Unallocated], "a1",
                           source, target)
    IN IF r.raised = "none" THEN r.heap[r.ret] ELSE Unallocated

RemapStart ==
    /\ in0 \in Volumes
    /\ in_volume = "a1"
    /\ heap = [a \in Addrs |-> IF a = in_volume THEN in0 ELSE Unallocated]
    /\ label_convert_source \in LabelLists
    /\ label_convert_target \in LabelLists
    /\ out_volume = NoAddr
    /\ rraised = "none"
    /\ rindex = -1
    /\ rpc = "init"

\* the caller calls convert_label(in_volume, source, target)
CallConvertLabel ==
    /\ rpc = "init"
    /\ LET r == convert_label(heap, in_volume, label_convert_source, label_convert_target)
       IN /\ heap' = r.heap
          /\ out_volume' = r.ret
          /\ rraised' = r.raised
          /\ rindex' = r.index
          /\ rpc' = IF r.raised = "none" THEN "returned" ELSE "raised"
    /\ UNCHANGED <<in_volume, in0, label_convert_source, label_convert_target>>
    /\ UNCHANGED <<loaderVars, scriptVars, blockVars>>

\* the caller later writes a different value into one voxel of the returned volume
WriteOutput ==
    /\ rpc = "returned"
    /\ \E p \in Voxels :
          heap' = [heap EXCEPT ![out_volume][p] = (heap[out_volume][p] + 1) % (MaxLabel + 1)]
    /\ rpc' = "written"
    /\ UNCHANGED <<in_volume, in0, label_convert_source, label_convert_target,
                   out_volume, rraised, rindex>>
    /\ UNCHANGED <<loaderVars, scriptVars, blockVars>>

NextRemap ==
    \/ CallConvertLabel
    \/ WriteOutput

-----------------------------------------------------------------------------
(***************************************************************************)
(* The loader functions (test_brat17.py, lines 17-47).                     *)
(*                                                                         *)
(* A file name is a sequence of parts; the parts are chosen so that the    *)
(* text ".nii" (".mha") occurs in the name exactly when the part ".nii"    *)
(* (".mha") is one of them.  A file on disk is [ok, shape]: ok says        *)
(* whether a decoder can read it, shape is the shape of the array the      *)
(* decoder yields.  The voxel of file f at index idx holds the symbolic    *)
(* value <<f, idx>>, so two voxels are equal only if they are the same     *)
(* voxel of the same file.  Indices are 1-based here, 0-based in numpy.    *)
(***************************************************************************)
NameParts == {"scan", "/", ".nii", ".gz", ".mha", ".dcm"}
\* a file name starts with a base name and does not end in a separator
FileNames == {n \in UNION {[1 .. k -> NameParts] : k \in 1 .. MaxNameLen} :
                 n[1] = "scan" /\ n[Len(n)] # "/"}
Axes == 1 .. 3
Shapes == [Axes -> 1 .. MaxDim]
Indices(shape) == {idx \in [Axes -> 1 .. MaxDim] : \A k \in Axes : idx[k] <= shape[k]}
Files == [ok : BOOLEAN, shape : Shapes]

\* the array stored in file `name`, in the axis order the decoder yields it
StoredArray(disk, name) ==
    [shape |-> disk[name].shape,
     data |-> [idx \in Indices(disk[name].shape) |-> <<name, idx>>]]

\* 'part' in filename
Contains(name, part) == \E i \in DOMAIN name : name[i] = part

\* np.transpose(a, axes) with numpy's 0-based axes: axis k of the result is
\* axis axes[k] of a
transpose(a, axes) ==
    [shape |-> [k \in Axes |-> a.shape[axes[k] + 1]],
     data |-> [idx \in Indices([k \in Axes |-> a.shape[axes[k] + 1]]) |->
                  a.data[[j \in Axes |-> idx[CHOOSE k \in Axes : axes[k] + 1 = j]]]]]

\* Axes left in the order of the file.
NiftiAxesIdentity == <<0, 1, 2>>

\* line 43: the axes argument of np.transpose
NiftiAxes == <<2, 1, 0>>

\* line 41-42: nibabel.load(filename) and img.get_data(); a missing or corrupt
\* file makes the decoder raise
nibabel_load(disk, name) ==
    IF name \in DOMAIN disk /\ disk[name].ok
    THEN [ok |-> TRUE, data |-> StoredArray(disk, name),
          affine |-> <<"affine", name>>, header |-> <<"header", name>>]
    ELSE [ok |-> FALSE]

\* lines 26-27: sitk.ReadImage(filename) and sitk.GetArrayFromImage(img)
sitk_read(disk, name) ==
    IF name \in DOMAIN disk /\ disk[name].ok
    THEN [ok |-> TRUE, nda |-> StoredArray(disk, name)]
    ELSE [ok |-> FALSE]

\* lines 31-47.  The result of a call is [raised, errarg, ret, decoders]:
\* the exception ("none" if it returns), the file name an unsupported-format
\* error carries, the value returned, and the decoder calls made.
load_nifty_volume_as_array(disk, name, with_header) ==
    LET image == nibabel_load(disk, name)
        calls == <<[lib |-> "nibabel", file |-> name]>>
    IN IF ~image.ok
       THEN [raised |-> "DecodeError", errarg |-> <<>>, ret |-> "None", decoders |-> calls]
       ELSE LET data == transpose(image.data, NiftiAxes)
            IN [raised |-> "none", errarg |-> <<>>,
                ret |-> IF with_header THEN <<data, image.affine, image.header>> ELSE data,
                decoders |-> calls]

\* lines 25-28
load_mha_volume_as_array(disk, name) ==
    LET image == sitk_read(disk, name)
        calls == <<[lib |-> "sitk", file |-> name]>>
    IN IF ~image.ok
       THEN [raised |-> "DecodeError", errarg |-> <<>>, ret |-> "None", decoders |-> calls]
       ELSE [raised |-> "none", errarg |-> <<>>, ret |-> image.nda, decoders |-> calls]

\* lines 17-22
load_3d_volume_as_array(disk, name) ==
    IF Contains(name, ".nii")
    THEN load_nifty_volume_as_array(disk, name, FALSE)
    ELSE IF Contains(name, ".mha")
         THEN load_mha_volume_as_array(disk, name)
         ELSE [raised |-> "ValueError", errarg |-> name, ret |-> "None", decoders |-> <<>>]

LoaderStart ==
    /\ filename \in FileNames
    /\ ldisk \in {[n \in {filename} |-> f] : f \in Files}
    /\ lcall = "none"
    /\ lwith_header = FALSE
    /\ lret = "None"
    /\ lraised = "none"
    /\ lerrarg = <<>>
    /\ ldecoder = <<>>

LoaderReturn(r) ==
    /\ lret' = r.ret
    /\ lraised' = r.raised
    /\ lerrarg' = r.errarg
    /\ ldecoder' = r.decoders
    /\ UNCHANGED <<filename, ldisk>>
    /\ UNCHANGED <<remapVars, scriptVars, blockVars>>

\* a caller calls load_3d_volume_as_array(filename)
CallLoad3d ==
    /\ lcall = "none"
    /\ lcall' = "load_3d_volume_as_array"
    /\ lwith_header' = FALSE
    /\ LoaderReturn(load_3d_volume_as_array(ldisk, filename))

\* a caller calls load_nifty_volume_as_array(filename, with_header)
CallLoadNifty ==
    /\ lcall = "none"
    /\ lcall' = "load_nifty_volume_as_array"
    /\ \E h \in BOOLEAN :
          /\ lwith_header' = h
          /\ LoaderReturn(load_nifty_volume_as_array(ldisk, filename, h))

\* a caller calls load_mha_volume_as_array(filename)
CallLoadMha ==
    /\ lcall = "none"
    /\ lcall' = "load_mha_volume_as_array"
    /\ lwith_header' = FALSE
    /\ LoaderReturn(load_mha_volume_as_array(ldisk, filename))

NextLoader ==
    \/ CallLoad3d
    \/ CallLoadNifty
    \/ CallLoadMha

-----------------------------------------------------------------------------
(***************************************************************************)
(* The module-level script (test_brat17.py, lines 75-117).  The state      *)
(* after lines 75-85: img_num is drawn, the names file has a line for it   *)
(* (the line is identified with its number), and the five files of that    *)
(* case are on disk, readable and of one shape.                            *)
(***************************************************************************)
\* line 79: np.random.randint(0, 33) draws from 0 .. 32
RandintHigh == 33

Suffixes == {"_t1", "_t1ce", "_flair", "_t2", "_seg"}

\* line 85: root_path + '/' + cur_im_name + '/' + os.path.basename(cur_im_name)
img_path(n) == <<"root", "/", n, "/", n>>

\* lines 88, 94, 100, 106, 112: img_path + '<suffix>.nii.gz'
CasePath(n, suffix) == img_path(n) \o <<suffix, ".nii", ".gz">>

\* np.stack(arrays): a new axis 0 over arrays of one shape
np_stack(arrays) ==
    IF \A i, j \in DOMAIN arrays : arrays[i].shape = arrays[j].shape
    THEN [raised |-> "none", ret |-> arrays]
    ELSE [raised |-> "ValueError", ret |-> "None"]

ScriptStart ==
    /\ img_num \in 0 .. (RandintHigh - 1)
    /\ \E sh \in Shapes :
          sdisk = [n \in {CasePath(img_num, s) : s \in Suffixes} |->
                      [ok |-> TRUE, shape |-> sh]]
    /\ t1_img = "None" /\ t1ce_img = "None" /\ flair_img = "None"
    /\ t2_img = "None" /\ lbl = "None" /\ img = "None"
    /\ reads = <<>>
    /\ sraised = "none"
    /\ spc = "t1"

\* what a load statement of the script does to the script's control state
ScriptLoaded(r, next) ==
    /\ reads' = reads \o [i \in DOMAIN r.decoders |-> r.decoders[i].file]
    /\ sraised' = r.raised
    /\ spc' = IF r.raised = "none" THEN next ELSE "failed"
    /\ UNCHANGED <<sdisk, img_num, img>>
    /\ UNCHANGED <<remapVars, loaderVars, blockVars>>

\* lines 88-89
LoadT1 ==
    /\ spc = "t1"
    /\ LET t1_img_path == CasePath(img_num, "_t1")
           r == load_nifty_volume_as_array(sdisk, t1_img_path, FALSE)
       IN /\ t1_img' = r.ret
          /\ ScriptLoaded(r, "t1ce")
    /\ UNCHANGED <<t1ce_img, flair_img, t2_img, lbl>>

\* lines 94-95
LoadT1ce ==
    /\ spc = "t1ce"
    /\ LET t1ce_img_path == CasePath(img_num, "_t1ce")
           r == load_nifty_volume_as_array(sdisk, t1ce_img_path, FALSE)
       IN /\ t1ce_img' = r.ret
          /\ ScriptLoaded(r, "flair")
    /\ UNCHANGED <<t1_img, flair_img, t2_img, lbl>>

\* lines 100-101
LoadFlair ==
    /\ spc = "flair"
    /\ LET flair_img_path == CasePath(img_num, "_flair")
           r == load_nifty_volume_as_array(sdisk, flair_img_path, FALSE)
       IN /\ flair_img' = r.ret
          /\ ScriptLoaded(r, "t2")
    /\ UNCHANGED <<t1_img, t1ce_img, t2_img, lbl>>

\* lines 106-107: t2_img_path is computed, and flair_img_path is what is loaded
LoadT2 ==
    /\ spc = "t2"
    /\ LET flair_img_path == CasePath(img_num, "_flair")
           t2_img_path == CasePath(img_num, "_t2")
           r == load_nifty_volume_as_array(sdisk, flair_img_path, FALSE)
       IN /\ t2_img' = r.ret
          /\ ScriptLoaded(r, "seg")
    /\ UNCHANGED <<t1_img, t1ce_img, flair_img, lbl>>

\* lines 112-113
LoadLbl ==
    /\ spc = "seg"
    /\ LET lbl_path == CasePath(img_num, "_seg")
           r == load_nifty_volume_as_array(sdisk, lbl_path, FALSE)
       IN /\ lbl' = r.ret
          /\ ScriptLoaded(r, "stack")
    /\ UNCHANGED <<t1_img, t1ce_img, flair_img, t2_img>>

\* line 117: img = np.stack((t1_img, t2_img, t1ce_img, flair_img))
Stack ==
    /\ spc = "stack"
    /\ LET r == np_stack(<<t1_img, t2_img, t1ce_img, flair_img>>)
       IN /\ img' = r.ret
          /\ sraised' = r.raised
          /\ spc' = IF r.raised = "none" THEN "done" ELSE "failed"
    /\ UNCHANGED <<sdisk, img_num, t1_img, t1ce_img, flair_img, t2_img, lbl, reads>>
    /\ UNCHANGED <<remapVars, loaderVars, blockVars>>

NextScript ==
    \/ LoadT1
    \/ LoadT1ce
    \/ LoadFlair
    \/ LoadT2
    \/ LoadLbl
    \/ Stack

-----------------------------------------------------------------------------
(***************************************************************************)
(* Block and SeparableConv2d (xception39.py, lines 42-104).  A tensor is   *)
(* its shape [c, h, w] (channels, height, width; the batch axis passes     *)
(* through every layer), or the failure of a layer to accept its input.    *)
(* The layers are torch.nn's; what they do to a shape is torch's           *)
(* documented output-size arithmetic.                                      *)
(***************************************************************************)
Tensor(c, h, w) == [ok |-> TRUE, c |-> c, h |-> h, w |-> w]
ShapeError == [ok |-> FALSE, c |-> 0, h |-> 0, w |-> 0]
NoLayer == [kind |-> "None"]

\* nn.Conv2d(in_channels, out_channels, kernel_size, stride, padding, dilation, groups)
Conv2d(cin, cout, k, s, p, d, g) ==
    [kind |-> "Conv2d", in_channels |-> cin, out_channels |-> cout, kernel_size |-> k,
     stride |-> s, padding |-> p, dilation |-> d, groups |-> g]
\* nn.BatchNorm2d(num_features)
BatchNorm2d(n) == [kind |-> "BatchNorm2d", num_features |-> n]
\* nn.ReLU(inplace)
ReLU(inplace) == [kind |-> "ReLU", inplace |-> inplace]
\* nn.MaxPool2d(kernel_size, stride, padding)
MaxPool2d(k, s, p) == [kind |-> "MaxPool2d", kernel_size |-> k, stride |-> s, padding |-> p]

\* lines 43-47: SeparableConv2d.__init__
SeparableConv2d(cin, cout, k, s, p) ==
    [kind |-> "SeparableConv2d",
     conv1 |-> Conv2d(cin, cin, k, s, p, 1, cin),
     pointwise |-> Conv2d(cin, cout, 1, 1, 0, 1, 1)]

\* the size of an axis of n entries after a window of k entries with stride s,
\* padding p and dilation d has slid over it
OutSize(n, k, s, p, d) == (n + 2 * p - d * (k - 1) - 1) \div s + 1

Conv2dForward(l, t) ==
    IF \/ ~t.ok
       \/ t.c # l.in_channels
       \/ l.in_channels % l.groups # 0 \/ l.out_channels % l.groups # 0
       \/ t.h + 2 * l.padding < l.dilation * (l.kernel_size - 1) + 1
       \/ t.w + 2 * l.padding < l.dilation * (l.kernel_size - 1) + 1
    THEN ShapeError
    ELSE Tensor(l.out_channels,
                OutSize(t.h, l.kernel_size, l.stride, l.padding, l.dilation),
                OutSize(t.w, l.kernel_size, l.stride, l.padding, l.dilation))

MaxPool2dForward(l, t) ==
    IF \/ ~t.ok
       \/ 2 * l.padding > l.kernel_size
       \/ t.h + 2 * l.padding < l.kernel_size
       \/ t.w + 2 * l.padding < l.kernel_size
    THEN ShapeError
    ELSE Tensor(t.c, OutSize(t.h, l.kernel_size, l.stride, l.padding, 1),
                OutSize(t.w, l.kernel_size, l.stride, l.padding, 1))

BatchNorm2dForward(l, t) ==
    IF ~t.ok \/ t.c # l.num_features THEN ShapeError ELSE t

\* lines 49-52: SeparableConv2d.forward
SeparableConv2dForward(l, t) == Conv2dForward(l.pointwise, Conv2dForward(l.conv1, t))

LayerForward(l, t) ==
    CASE l.kind = "Conv2d" -> Conv2dForward(l, t)
      [] l.kind = "SeparableConv2d" -> SeparableConv2dForward(l, t)
      [] l.kind = "BatchNorm2d" -> BatchNorm2dForward(l, t)
      [] l.kind = "MaxPool2d" -> MaxPool2dForward(l, t)
      [] l.kind = "ReLU" -> t

\* nn.Sequential(*layers)(t)
RECURSIVE Sequential(_, _)
Sequential(layers, t) ==
    IF layers = <<>> THEN t
    ELSE Sequential(Tail(layers), LayerForward(Head(layers), t))

\* lines 75-78: the loop, n iterations left
RECURSIVE RepLoop(_, _, _)
RepLoop(rep_, n, filters) ==
    IF n <= 0 THEN rep_
    ELSE RepLoop(rep_ \o <<ReLU(TRUE),
                          SeparableConv2d(filters, filters, 3, 1, 1),
                          BatchNorm2d(filters)>>,
                 n - 1, filters)

\* A pooling layer without padding.
PoolLayerNoPadding(strides_) == MaxPool2d(3, strides_, 0)

\* line 91: nn.MaxPool2d(3, strides, 1)
PoolLayer(strides_) == MaxPool2d(3, strides_, 1)

\* line 60: nn.Conv2d(in_filters, out_filters, 1, stride=strides, bias=False)
SkipConv(cin, cout, strides_) == Conv2d(cin, cout, 1, strides_, 0, 1, 1)

\* lines 56-92: Block.__init__
Block(cin, cout, reps_, strides_, start_with_relu_, grow_first_) ==
    LET has_skip == cout # cin \/ strides_ # 1
        rep1 == IF grow_first_
                THEN <<ReLU(TRUE), SeparableConv2d(cin, cout, 3, 1, 1), BatchNorm2d(cout)>>
                ELSE <<>>
        filters == IF grow_first_ THEN cout ELSE cin
        rep2 == RepLoop(rep1, reps_ - 1, filters)
        rep3 == IF ~grow_first_
                THEN rep2 \o <<ReLU(TRUE), SeparableConv2d(cin, cout, 3, 1, 1),
                               BatchNorm2d(cout)>>
                ELSE rep2
        rep4 == IF ~start_with_relu_ THEN Tail(rep3)
                ELSE [rep3 EXCEPT ![1] = ReLU(FALSE)]
        rep5 == IF strides_ # 1 THEN Append(rep4, PoolLayer(strides_)) ELSE rep4
    IN [skip |-> IF has_skip THEN SkipConv(cin, cout, strides_) ELSE NoLayer,
        skipbn |-> IF has_skip THEN BatchNorm2d(cout) ELSE NoLayer,
        rep |-> rep5]

\* line 103: x += skip, an in-place add: skip must broadcast to the shape of x
AddInPlace(x_, skip_) ==
    IF /\ x_.ok /\ skip_.ok
       /\ skip_.c \in {x_.c, 1} /\ skip_.h \in {x_.h, 1} /\ skip_.w \in {x_.w, 1}
    THEN x_
    ELSE ShapeError

\* lines 94-104: Block.forward
BlockForward(b, inp_) ==
    LET x_ == Sequential(b.rep, inp_)
        skip_ == IF b.skip # NoLayer
                 THEN LayerForward(b.skipbn, LayerForward(b.skip, inp_))
                 ELSE inp_
    IN [x |-> x_, skip |-> skip_, sum |-> AddInPlace(x_, skip_)]

BlockStart ==
    /\ in_filters \in 1 .. MaxFilters
    /\ out_filters \in 1 .. MaxFilters
    /\ reps \in 1 .. MaxReps
    /\ strides \in 1 .. MaxStride
    /\ start_with_relu \in BOOLEAN
    /\ grow_first \in BOOLEAN
    /\ inp \in {Tensor(in_filters, h, w) : h, w \in 1 .. MaxSize}
    /\ block = NoLayer
    /\ x = ShapeError /\ skip = ShapeError /\ result = ShapeError
    /\ bpc = "new"

\* Block(in_filters, out_filters, reps, strides, start_with_relu, grow_first)
Construct ==
    /\ bpc = "new"
    /\ block' = Block(in_filters, out_filters, reps, strides, start_with_relu, grow_first)
    /\ bpc' = "built"
    /\ UNCHANGED <<in_filters, out_filters, reps, strides, start_with_relu, grow_first,
                   inp, x, skip, result>>
    /\ UNCHANGED <<remapVars, loaderVars, scriptVars>>

\* block(inp)
CallForward ==
    /\ bpc = "built"
    /\ LET r == BlockForward(block, inp)
       IN /\ x' = r.x
          /\ skip' = r.skip
          /\ result' = r.sum
          /\ bpc' = IF r.sum.ok THEN "done" ELSE "failed"
    /\ UNCHANGED <<in_filters, out_filters, reps, strides, start_with_relu, grow_first,
                   inp, block>>
    /\ UNCHANGED <<remapVars, loaderVars, scriptVars>>

NextBlock ==
    \/ Construct
    \/ CallForward

-----------------------------------------------------------------------------
(***************************************************************************)
(* The specifications.  Each part starts from its own initial states with  *)
(* the other parts idle.                                                   *)
(***************************************************************************)
RemapIdle ==
    /\ heap = <<>> /\ in_volume = "None" /\ in0 = <<>>
    /\ label_convert_source = <<>> /\ label_convert_target = <<>>
    /\ out_volume = NoAddr /\ rraised = "none" /\ rindex = -1 /\ rpc = "idle"

LoaderIdle ==
    /\ filename = <<>> /\ ldisk = <<>> /\ lcall = "idle" /\ lwith_header = FALSE
    /\ lret = "None" /\ lraised = "none" /\ lerrarg = <<>> /\ ldecoder = <<>>

ScriptIdle ==
    /\ sdisk = <<>> /\ img_num = -1
    /\ t1_img = "None" /\ t1ce_img = "None" /\ flair_img = "None"
    /\ t2_img = "None" /\ lbl = "None" /\ img = "None"
    /\ reads = <<>> /\ sraised = "none" /\ spc = "idle"

BlockIdle ==
    /\ in_filters = 0 /\ out_filters = 0 /\ reps = 0 /\ strides = 0
    /\ start_with_relu = FALSE /\ grow_first = FALSE
    /\ block = NoLayer /\ inp = ShapeError
    /\ x = ShapeError /\ skip = ShapeError /\ result = ShapeError
    /\ bpc = "idle"

InitRemap == RemapStart /\ LoaderIdle /\ ScriptIdle /\ BlockIdle
InitLoader == RemapIdle /\ LoaderStart /\ ScriptIdle /\ BlockIdle
InitScript == RemapIdle /\ LoaderIdle /\ ScriptStart /\ BlockIdle
InitBlock == RemapIdle /\ LoaderIdle /\ ScriptIdle /\ BlockStart

SpecRemap == InitRemap /\ [][NextRemap]_vars
SpecLoader == InitLoader /\ [][NextLoader]_vars
SpecScript == InitScript /\ [][NextScript]_vars
SpecBlock == InitBlock /\ [][NextBlock]_vars

-----------------------------------------------------------------------------
(***************************************************************************)
(* Properties of convert_label, under SpecRemap.                           *)
(***************************************************************************)
Range(list) == {list[i] : i \in DOMAIN list}
EqualLength == Len(label_convert_source) = Len(label_convert_target)
\* the values of the returned volume
OutValues == heap[out_volume]
\* the rules that change something (line 65) and match the value x
ActiveOn(value) == {i \in DOMAIN label_convert_source :
                   /\ i \in DOMAIN label_convert_target
                   /\ label_convert_source[i] = value
                   /\ label_convert_source[i] # label_convert_target[i]}
Perms(n) == {f \in [1 .. n -> 1 .. n] : \A i, j \in 1 .. n : f[i] = f[j] => i = j}
Permute(list, f) == [i \in DOMAIN list |-> list[f[i]]]

\* C1: with lists of equal length, every voxel of the returned volume holds the
\* target of a rule whose source is its original value, and its original value
\* when no rule has that source.
C1_RemapByOriginalValue ==
    (rpc = "returned" /\ EqualLength) =>
        \A p \in Voxels :
            LET m == {i \in DOMAIN label_convert_source :
                         label_convert_source[i] = in0[p]}
            IN IF m = {} THEN OutValues[p] = in0[p]
               ELSE OutValues[p] \in {label_convert_target[i] : i \in m}

\* C5: the returned volume is the one convert_label returns for the same
\* (source, target) pairs listed in any other order.
C5_OrderIndependent ==
    (rpc = "returned" /\ EqualLength) =>
        \A f \in Perms(Len(label_convert_source)) :
            Converted(in0, Permute(label_convert_source, f),
                      Permute(label_convert_target, f)) = OutValues

\* C5's case: a voxel rewritten by the first rule to a value that is the source
\* of the second rule, which rewrites that value to yet another one.
C5_Witness ==
    /\ rpc = "returned" /\ EqualLength /\ Len(label_convert_source) >= 2
    /\ label_convert_target[1] = label_convert_source[2]
    /\ label_convert_target[2] # label_convert_source[2]
    /\ \E p \in Voxels : ActiveOn(in0[p]) = {1} /\ OutValues[p] = label_convert_target[1]

\* C6: when no target value is a source value, the returned volume holds no
\* source value and converting it again changes nothing.
C6_SecondPassNoOp ==
    (/\ rpc = "returned" /\ EqualLength
     /\ Range(label_convert_source) \cap Range(label_convert_target) = {}) =>
        /\ \A p \in Voxels : OutValues[p] \notin Range(label_convert_source)
        /\ Converted(OutValues, label_convert_source, label_convert_target) = OutValues

\* C8: the array passed as in_volume always holds the values it held at the
\* call, also after a later write into the returned volume, which is another
\* array.
C8_InputUntouched ==
    /\ heap[in_volume] = in0
    /\ rpc \in {"returned", "written"} => out_volume \in Addrs \ {in_volume}

\* C8's case: every voxel was rewritten by the call, and the returned volume
\* was written into afterwards.
C8_Witness ==
    /\ rpc = "written"
    /\ \A p \in Voxels : ActiveOn(in0[p]) # {}
    /\ \A p \in Voxels : OutValues[p] # in0[p]

\* C9: list lengths are not validated.  A longer target list is read only up to
\* len(source): the call returns what it returns for the truncated list.  A
\* shorter target list makes the call raise IndexError at index len(target),
\* returning nothing and leaving in_volume as it was.
C9_LengthMismatch ==
    rpc # "init" =>
        /\ Len(label_convert_target) >= Len(label_convert_source) =>
              /\ rraised = "none" /\ rpc # "raised"
              /\ rpc = "returned" =>
                    OutValues = Converted(in0, label_convert_source,
                                          SubSeq(label_convert_target, 1,
                                                 Len(label_convert_source)))
        /\ Len(label_convert_target) < Len(label_convert_source) =>
              /\ rpc = "raised" /\ rraised = "IndexError"
              /\ rindex = Len(label_convert_target)
              /\ out_volume = NoAddr
              /\ heap[in_volume] = in0

\* C9's case: the target list is the shorter one and the failing index is not
\* the first, so rules were applied before the call failed.
C9_Witness ==
    /\ rpc = "raised"
    /\ 1 <= Len(label_convert_target)
    /\ Len(label_convert_target) < Len(label_convert_source)
    /\ ActiveOn(in0[1]) # {}

-----------------------------------------------------------------------------
(***************************************************************************)
(* Properties of the loader functions, under SpecLoader.                   *)
(***************************************************************************)
Last(name) == name[Len(name)]
\* the name ends in .nii or .nii.gz
HasNiftiExtension(name) ==
    \/ Last(name) = ".nii"
    \/ Len(name) >= 2 /\ Last(name) = ".gz" /\ name[Len(name) - 1] = ".nii"
\* the name ends in .mha
HasMhaExtension(name) == Last(name) = ".mha"
DecodersUsed == {ldecoder[i].lib : i \in DOMAIN ldecoder}
\* the array returned by the call (the first component when with_header)
ReturnedData == IF lwith_header THEN lret[1] ELSE lret

\* C3: load_3d_volume_as_array raises the unsupported-format error, carrying
\* the file name and invoking no decoder, for every name whose extension is not
\* .nii, .nii.gz or .mha, and invokes the NIfTI decoder for a name with a .nii
\* or .nii.gz extension and the MetaImage decoder for one with a .mha extension.
C3_DispatchByExtension ==
    lcall = "load_3d_volume_as_array" =>
        /\ (~HasNiftiExtension(filename) /\ ~HasMhaExtension(filename)) =>
              (lraised = "ValueError" /\ lerrarg = filename /\ ldecoder = <<>>)
        /\ HasNiftiExtension(filename) => DecodersUsed = {"nibabel"}
        /\ HasMhaExtension(filename) => DecodersUsed = {"sitk"}

\* C4: a volume read by the NIfTI decoder as d of shape (X, Y, Z) is returned
\* with shape (Z, Y, X) and out[z][y][x] = d[x][y][z], with or without
\* with_header; a volume read by the MetaImage decoder is returned as decoded.
C4_AxisOrder ==
    (lcall \notin {"none", "idle"} /\ lraised = "none") =>
        LET d == StoredArray(ldisk, filename)
        IN /\ DecodersUsed = {"nibabel"} =>
                 /\ ReturnedData.shape = <<d.shape[3], d.shape[2], d.shape[1]>>
                 /\ \A xi \in 1 .. d.shape[1], yi \in 1 .. d.shape[2], zi \in 1 .. d.shape[3] :
                        ReturnedData.data[<<zi, yi, xi>>] = d.data[<<xi, yi, zi>>]
           /\ DecodersUsed = {"sitk"} => lret = d

\* C4's case: load_nifty_volume_as_array has returned, with the header, a
\* volume whose first and last axis differ in size.
C4_Witness ==
    /\ lcall = "load_nifty_volume_as_array" /\ lwith_header /\ lraised = "none"
    /\ ldisk[filename].shape[1] # ldisk[filename].shape[3]
    /\ ReturnedData.shape[1] = ldisk[filename].shape[3]

-----------------------------------------------------------------------------
(***************************************************************************)
(* Properties of the script, under SpecScript.                             *)
(***************************************************************************)
\* the volume decoded from the <case><suffix>.nii.gz file of the case
Decoded(suffix) ==
    load_nifty_volume_as_array(sdisk, CasePath(img_num, suffix), FALSE).ret
\* how often the file with this suffix was handed to the decoder
TimesRead(suffix) ==
    Cardinality({i \in DOMAIN reads : reads[i] = CasePath(img_num, suffix)})

\* C2: the stacked array has four channels and holds, in this order, the
\* volumes decoded from the _t1, _t2, _t1ce and _flair files of the case.
C2_StackOrder ==
    spc = "done" =>
        /\ Len(img) = 4
        /\ img[1] = Decoded("_t1")
        /\ img[2] = Decoded("_t2")
        /\ img[3] = Decoded("_t1ce")
        /\ img[4] = Decoded("_flair")

\* C7: when the script stacks, the loader has been invoked exactly five times,
\* once on each of the five files of the case.
C7_FiveLoadsOnceEach ==
    spc = "done" =>
        /\ Len(reads) = 5
        /\ \A s \in Suffixes : TimesRead(s) = 1

-----------------------------------------------------------------------------
(***************************************************************************)
(* Properties of Block, under SpecBlock.                                   *)
(***************************************************************************)
\* the channels a layer expects (0: any) and yields for c channels in
ChannelsIn(l) ==
    CASE l.kind = "SeparableConv2d" -> l.conv1.in_channels
      [] l.kind = "Conv2d" -> l.in_channels
      [] l.kind = "BatchNorm2d" -> l.num_features
      [] OTHER -> 0
ChannelsOut(l, c) ==
    CASE l.kind = "SeparableConv2d" -> l.pointwise.out_channels
      [] l.kind = "Conv2d" -> l.out_channels
      [] OTHER -> c
\* the channels after the layers, fed c channels; -1 if a layer expects others
RECURSIVE ChainOut(_, _)
ChainOut(layers, c) ==
    IF layers = <<>> THEN c
    ELSE IF ChannelsIn(Head(layers)) \notin {0, c} THEN -1
         ELSE ChainOut(Tail(layers), ChannelsOut(Head(layers), c))
\* the spatial size both paths must yield for an axis of n entries
Reduced(n) == (n - 1) \div strides + 1

=============================================================================
